---- MODULE Spec2Model ----
(***************************************************************************)
(* Model of carboxyl's event primitives (src/src/primitives.rs): Sink,     *)
(* Map, Filter and Iter stages built on the `subject` module (Source,      *)
(* Mapper, Filter, Receiver, WrapListener).  The `subject` module is not   *)
(* part of src/; its operators are modelled from the specification (§6)    *)
(* and are marked so in MODEL_MAP.json.                                    *)
(*                                                                         *)
(* A stage object is an Arc<RwLock<..>>: `strong` is the Arc's strong      *)
(* count, `lock` the thread holding the RwLock (the code in src/ only ever *)
(* takes write()), `listeners` the weak handles its Source holds, in       *)
(* registration order.  Producer threads run Sink::send; its depth-first   *)
(* fan-out is the call stack `stack[t]`.  Consumer threads run Iter::next. *)
(* Chain growth (map/filter/iter) and handle drops are performed by the    *)
(* owning code in a single step each (they never block while holding a     *)
(* lock).                                                                  *)
(***************************************************************************)
EXTENDS Integers, Sequences, FiniteSets, TLC

\* ---- bounds ----
MaxStages == 3
ChainStages == 4
MaxSends == 3

\* ---- inputs ----
Values == {9, 12}
Producers == {"p1", "p2"}
Consumers == {"c1"}
NoThread == "none"
Stages == 1 .. (IF MaxStages > ChainStages THEN MaxStages ELSE ChainStages)
TheSink == 1
Fns == {"triple", "succ"}
Preds == {"small"}

\* the closure a Map stage owns: |x| 3 * x of test::map, and a second one
ApplyFn(f, x) == IF f = "triple" THEN 3 * x ELSE x + 1

\* the closure a Filter stage owns: |&x| x < 11 of test::filter
ApplyPred(p, x) == x < 11

VARIABLES
    kind,       \* kind[s]: "sink", "map", "filter", "iter"; "free": not yet created;
                \* "unused": a slot the run never creates
    fn,         \* fn[s]: the closure owned by a map / filter stage ("-" otherwise)
    held,       \* held[s]: the handle returned by new/map/filter/iter is still owned
    strong,     \* strong[s]: strong count of the stage's Arc
    listeners,  \* listeners[s]: weak handles registered on the stage's Source
    queue,      \* queue[s]: buffer of an iter stage's Receiver
    lock,       \* lock[s]: thread holding the stage's RwLock, or NoThread
    stack,      \* stack[t]: call stack of producer t inside Sink::send (the frame of
                \* the Sink also notes the stages downstream when send started)
    pc,         \* pc[c]: 0, or the iter stage on which consumer c is inside next()
    parent,     \* history: the upstream a stage was registered on (0: none)
    born,       \* history: number of sends started when the stage was created
    sentLog,    \* history: the send calls, in the order they took the Sink's lock
    delivered,  \* history: values a stage's receive was invoked with
    returned    \* history: values next() returned on an iter stage

vars == <<kind, fn, held, strong, listeners, queue, lock, stack, pc,
          parent, born, sentLog, delivered, returned>>

\* ---- helpers ----
Top(t) == stack[t][Len(stack[t])]

RemoveAt(seq, i) == SubSeq(seq, 1, i - 1) \o SubSeq(seq, i + 1, Len(seq))

Alive(s) == strong[s] > 0

LockFree(s) == lock[s] = NoThread

FreeStages == {s \in Stages : kind[s] = "free"}

NewStage == CHOOSE s \in FreeStages : \A r \in FreeStages : s <= r

IsEvent(s) == kind[s] \in {"sink", "map", "filter"}

Registered(u, s) == \E i \in 1 .. Len(listeners[u]) : listeners[u][i] = s

\* s is reached from the Sink through weak handles of live stages
RECURSIVE Downstream(_)
Downstream(s) ==
    /\ parent[s] # 0
    /\ Alive(s)
    /\ Registered(parent[s], s)
    /\ parent[s] = TheSink \/ Downstream(parent[s])

\* Sink::new, with room for n stage objects in all
InitWith(n) ==
    /\ kind = [s \in Stages |-> IF s = TheSink THEN "sink"
                                ELSE IF s <= n THEN "free" ELSE "unused"]
    /\ fn = [s \in Stages |-> "-"]
    /\ held = [s \in Stages |-> s = TheSink]
    /\ strong = [s \in Stages |-> IF s = TheSink THEN 1 ELSE 0]
    /\ listeners = [s \in Stages |-> <<>>]
    /\ queue = [s \in Stages |-> <<>>]
    /\ lock = [s \in Stages |-> NoThread]
    /\ stack = [t \in Producers |-> <<>>]
    /\ pc = [c \in Consumers |-> 0]
    /\ parent = [s \in Stages |-> 0]
    /\ born = [s \in Stages |-> 0]
    /\ sentLog = <<>>
    /\ delivered = [s \in Stages |-> <<>>]
    /\ returned = [s \in Stages |-> <<>>]

Init == InitWith(MaxStages)

ChainInit == InitWith(ChainStages)

\* ---- subject module ----

\* Subject::listen with WrapListener::wrap: the upstream's Source stores a weak
\* handle of the new stage; the strong count of the new stage is not touched.
Subject_listen(u, s) == Append(listeners[u], s)

\* Receiver: push at the back
Receiver_push(q, v) == Append(q, v)

\* Receiver: blocking pop from the front (the caller waits while CanPop is false)
Receiver_canPop(q) == q # <<>>
Receiver_front(q) == Head(q)
Receiver_rest(q) == Tail(q)

\* ---- chain growth ----

\* mutant: the new listener replaces the registered ones
Stage_new_replace(u, s, k, f) ==
    /\ kind' = [kind EXCEPT ![s] = k]
    /\ fn' = [fn EXCEPT ![s] = f]
    /\ held' = [held EXCEPT ![s] = TRUE]
    /\ strong' = [strong EXCEPT ![s] = 1]
    /\ listeners' = [listeners EXCEPT ![u] = <<s>>]
    /\ parent' = [parent EXCEPT ![s] = u]
    /\ born' = [born EXCEPT ![s] = Len(sentLog)]
    /\ UNCHANGED <<queue, lock, stack, pc, sentLog, delivered, returned>>

\* mutant: the upstream is handed a clone of the Arc instead of a weak handle
Stage_new_strong(u, s, k, f) ==
    /\ kind' = [kind EXCEPT ![s] = k]
    /\ fn' = [fn EXCEPT ![s] = f]
    /\ held' = [held EXCEPT ![s] = TRUE]
    /\ strong' = [strong EXCEPT ![s] = 2]
    /\ listeners' = [listeners EXCEPT ![u] = Subject_listen(u, s)]
    /\ parent' = [parent EXCEPT ![s] = u]
    /\ born' = [born EXCEPT ![s] = Len(sentLog)]
    /\ UNCHANGED <<queue, lock, stack, pc, sentLog, delivered, returned>>

\* mutant: the stage is built but sub.listen is not called
Stage_new_unregistered(u, s, k, f) ==
    /\ kind' = [kind EXCEPT ![s] = k]
    /\ fn' = [fn EXCEPT ![s] = f]
    /\ held' = [held EXCEPT ![s] = TRUE]
    /\ strong' = [strong EXCEPT ![s] = 1]
    /\ parent' = [parent EXCEPT ![s] = u]
    /\ born' = [born EXCEPT ![s] = Len(sentLog)]
    /\ UNCHANGED <<listeners, queue, lock, stack, pc, sentLog, delivered,
                   returned>>

\* mutant: registration replays the last value sent to the new listener
Stage_new_replay(u, s, k, f) ==
    /\ kind' = [kind EXCEPT ![s] = k]
    /\ fn' = [fn EXCEPT ![s] = f]
    /\ held' = [held EXCEPT ![s] = TRUE]
    /\ strong' = [strong EXCEPT ![s] = 1]
    /\ listeners' = [listeners EXCEPT ![u] = Subject_listen(u, s)]
    /\ parent' = [parent EXCEPT ![s] = u]
    /\ born' = [born EXCEPT ![s] = Len(sentLog)]
    /\ delivered' = [delivered EXCEPT ![s] =
                         IF sentLog = <<>> THEN <<>>
                         ELSE <<[v |-> sentLog[Len(sentLog)].v, k |-> Len(sentLog)]>>]
    /\ queue' = [queue EXCEPT ![s] =
                     IF sentLog = <<>> \/ k # "iter" THEN <<>>
                     ELSE <<sentLog[Len(sentLog)].v>>]
    /\ UNCHANGED <<lock, stack, pc, sentLog, returned>>

\* Arc::new(RwLock::new(..)) followed by sub.listen(x.wrap()): the handle is the
\* only strong reference.
Stage_new(u, s, k, f) ==
    /\ kind' = [kind EXCEPT ![s] = k]
    /\ fn' = [fn EXCEPT ![s] = f]
    /\ held' = [held EXCEPT ![s] = TRUE]
    /\ strong' = [strong EXCEPT ![s] = 1]
    /\ listeners' = [listeners EXCEPT ![u] = Subject_listen(u, s)]
    /\ parent' = [parent EXCEPT ![s] = u]
    /\ born' = [born EXCEPT ![s] = Len(sentLog)]
    /\ UNCHANGED <<queue, lock, stack, pc, sentLog, delivered, returned>>

Map_new_unregistered(u, s, f) == Stage_new_unregistered(u, s, "map", f)

Map_new(u, s, f) == Stage_new(u, s, "map", f)

Filter_new_unregistered(u, s, p) == Stage_new_unregistered(u, s, "filter", p)

Filter_new(u, s, p) == Stage_new(u, s, "filter", p)

Iter_new_unregistered(u, s) == Stage_new_unregistered(u, s, "iter", "-")

Iter_new(u, s) == Stage_new(u, s, "iter", "-")

\* mutant: the listener is registered without taking u's lock
CanGrow_unlocked(u) == held[u] /\ IsEvent(u) /\ FreeStages # {}

\* The caller owns the handle of u; x.write().unwrap() needs u's lock.
CanGrow(u) == held[u] /\ IsEvent(u) /\ LockFree(u) /\ FreeStages # {}

\* mutant: map() starts the upstream's listener set afresh
Event_map_fresh(u, f) == CanGrow(u) /\ Stage_new_replace(u, NewStage, "map", f)

Event_map(u, f) == CanGrow(u) /\ Map_new(u, NewStage, f)

Event_filter(u, p) == CanGrow(u) /\ Filter_new(u, NewStage, p)

\* mutant: iter() on any stage registers the Receiver on the Sink
Event_iter_onSink(u) ==
    /\ CanGrow(u)
    /\ LockFree(TheSink)
    /\ kind' = [kind EXCEPT ![NewStage] = "iter"]
    /\ held' = [held EXCEPT ![NewStage] = TRUE]
    /\ strong' = [strong EXCEPT ![NewStage] = 1]
    /\ listeners' = [listeners EXCEPT ![TheSink] = Subject_listen(TheSink, NewStage)]
    /\ parent' = [parent EXCEPT ![NewStage] = u]
    /\ born' = [born EXCEPT ![NewStage] = Len(sentLog)]
    /\ UNCHANGED <<fn, queue, lock, stack, pc, sentLog, delivered, returned>>

Event_iter(u) == CanGrow(u) /\ Iter_new(u, NewStage)

\* ---- drop of a handle ----

\* Dropping the Arc: the object is destroyed when the count reaches zero, and with
\* it its Source (its weak handles) and its buffer.
Handle_drop(s) ==
    /\ s # TheSink
    /\ held[s]
    /\ \A c \in Consumers : pc[c] # s
    /\ held' = [held EXCEPT ![s] = FALSE]
    /\ strong' = [strong EXCEPT ![s] = @ - 1]
    /\ listeners' = [listeners EXCEPT ![s] = IF strong[s] = 1 THEN <<>> ELSE @]
    /\ queue' = [queue EXCEPT ![s] = IF strong[s] = 1 THEN <<>> ELSE @]
    /\ UNCHANGED <<kind, fn, lock, stack, pc, parent, born, sentLog,
                   delivered, returned>>

\* ---- Sink::send ----

Frame(s, v, k, live) == [stage |-> s, i |-> 1, val |-> v, k |-> k, live |-> live]

\* mutant: try_write instead of write, the value is dropped when the lock is taken
Sink_send_try(t, v) ==
    /\ stack[t] = <<>>
    /\ Len(sentLog) < MaxSends
    /\ sentLog' = Append(sentLog, [t |-> t, v |-> v])
    /\ IF LockFree(TheSink)
       THEN /\ lock' = [lock EXCEPT ![TheSink] = t]
            /\ stack' = [stack EXCEPT ![t] = <<Frame(TheSink, v, Len(sentLog) + 1,
                                             {s \in Stages : Downstream(s)})>>]
       ELSE UNCHANGED <<lock, stack>>
    /\ UNCHANGED <<kind, fn, held, strong, listeners, queue, pc, parent, born,
                   delivered, returned>>

\* mutant: read() instead of write(), sends on one Sink overlap
Sink_send_shared(t, v) ==
    /\ stack[t] = <<>>
    /\ Len(sentLog) < MaxSends
    /\ lock' = [lock EXCEPT ![TheSink] = t]
    /\ stack' = [stack EXCEPT ![t] = <<Frame(TheSink, v, Len(sentLog) + 1,
                                             {s \in Stages : Downstream(s)})>>]
    /\ sentLog' = Append(sentLog, [t |-> t, v |-> v])
    /\ UNCHANGED <<kind, fn, held, strong, listeners, queue, pc, parent, born,
                   delivered, returned>>

\* self.source.write().unwrap().send(a): take the Sink's write lock and enter
\* Source::send
Sink_send(t, v) ==
    /\ stack[t] = <<>>
    /\ Len(sentLog) < MaxSends
    /\ LockFree(TheSink)
    /\ lock' = [lock EXCEPT ![TheSink] = t]
    /\ stack' = [stack EXCEPT ![t] = <<Frame(TheSink, v, Len(sentLog) + 1,
                                             {s \in Stages : Downstream(s)})>>]
    /\ sentLog' = Append(sentLog, [t |-> t, v |-> v])
    /\ UNCHANGED <<kind, fn, held, strong, listeners, queue, pc, parent, born,
                   delivered, returned>>

Advance(t) == [stack[t] EXCEPT ![Len(stack[t])].i = @ + 1]

\* mutant: a failed upgrade ends the fan-out, the listeners after it are skipped
Listener_dead_abort(t) ==
    /\ stack[t] # <<>>
    /\ Top(t).i <= Len(listeners[Top(t).stage])
    /\ ~Alive(listeners[Top(t).stage][Top(t).i])
    /\ stack' = [stack EXCEPT ![t] =
                     [@ EXCEPT ![Len(@)].i = Len(listeners[Top(t).stage]) + 1]]
    /\ UNCHANGED <<kind, fn, held, strong, listeners, queue, lock, pc, parent,
                   born, sentLog, delivered, returned>>

\* Source::send reaches a weak handle whose stage is gone: upgrade fails, the
\* handle is pruned.
Listener_dead(t) ==
    /\ stack[t] # <<>>
    /\ Top(t).i <= Len(listeners[Top(t).stage])
    /\ LET s == Top(t).stage
           l == listeners[s][Top(t).i]
       IN  /\ ~Alive(l)
           /\ listeners' = [listeners EXCEPT ![s] = RemoveAt(@, Top(t).i)]
    /\ UNCHANGED <<kind, fn, held, strong, queue, lock, stack, pc, parent,
                   born, sentLog, delivered, returned>>

\* Source::send reaches a live listener: upgrade, lock the stage, receive.
\*   Receiver: push.   Mapper: f(a), then its own Source::send.
\*   Filter: its own Source::send when p(a), nothing otherwise.
Listener_accept(t) ==
    /\ stack[t] # <<>>
    /\ Top(t).i <= Len(listeners[Top(t).stage])
    /\ LET s == Top(t).stage
           l == listeners[s][Top(t).i]
           v == Top(t).val
           k == Top(t).k
           forward == \/ kind[l] = "map"
                      \/ kind[l] = "filter" /\ ApplyPred(fn[l], v)
           w == IF kind[l] = "map" THEN ApplyFn(fn[l], v) ELSE v
       IN  /\ Alive(l)
           /\ LockFree(l)
           /\ delivered' = [delivered EXCEPT ![l] = Append(@, [v |-> v, k |-> k])]
           /\ queue' = [queue EXCEPT ![l] =
                            IF kind[l] = "iter" THEN Receiver_push(@, v) ELSE @]
           /\ IF forward
              THEN /\ stack' = [stack EXCEPT ![t] = Append(@, Frame(l, w, k, {}))]
                   /\ lock' = [lock EXCEPT ![l] = t]
                   /\ strong' = [strong EXCEPT ![l] = @ + 1]
              ELSE /\ stack' = [stack EXCEPT ![t] = Advance(t)]
                   /\ UNCHANGED <<lock, strong>>
    /\ UNCHANGED <<kind, fn, held, listeners, pc, parent, born, sentLog,
                   returned>>

\* A nested Source::send has visited all its listeners: receive returns, the
\* stage's lock and the upgraded Arc are released.
Source_return(t) ==
    /\ Len(stack[t]) > 1
    /\ Top(t).i > Len(listeners[Top(t).stage])
    /\ LET s == Top(t).stage
           n == Len(stack[t])
       IN  /\ stack' = [stack EXCEPT ![t] =
                            [SubSeq(@, 1, n - 1) EXCEPT ![n - 1].i = @ + 1]]
           /\ lock' = [lock EXCEPT ![s] = NoThread]
           /\ strong' = [strong EXCEPT ![s] = @ - 1]
           /\ listeners' = [listeners EXCEPT ![s] = IF strong[s] = 1 THEN <<>> ELSE @]
    /\ UNCHANGED <<kind, fn, held, queue, pc, parent, born, sentLog,
                   delivered, returned>>

\* mutant: send returns without waiting for the fan-out to end
Send_return_early(t) ==
    /\ Len(stack[t]) = 1
    /\ stack' = [stack EXCEPT ![t] = <<>>]
    /\ lock' = [lock EXCEPT ![TheSink] = NoThread]
    /\ UNCHANGED <<kind, fn, held, strong, listeners, queue, pc, parent,
                   born, sentLog, delivered, returned>>

\* The Sink's Source::send has visited all its listeners: send returns.
Send_return(t) ==
    /\ Len(stack[t]) = 1
    /\ Top(t).i > Len(listeners[TheSink])
    /\ stack' = [stack EXCEPT ![t] = <<>>]
    /\ lock' = [lock EXCEPT ![TheSink] = NoThread]
    /\ UNCHANGED <<kind, fn, held, strong, listeners, queue, pc, parent,
                   born, sentLog, delivered, returned>>

\* ---- Iter::next ----

\* self.recv.write().unwrap(): the consumer takes the Receiver's write lock
Iter_lock(c, s) ==
    /\ pc[c] = 0
    /\ kind[s] = "iter"
    /\ held[s]
    /\ LockFree(s)
    /\ lock' = [lock EXCEPT ![s] = c]
    /\ pc' = [pc EXCEPT ![c] = s]
    /\ UNCHANGED <<kind, fn, held, strong, listeners, queue, stack, parent,
                   born, sentLog, delivered, returned>>

\* mutant: the value is returned but left in the buffer
Iter_next_peek(c) ==
    /\ pc[c] # 0
    /\ LET s == pc[c]
       IN  /\ Receiver_canPop(queue[s])
           /\ returned' = [returned EXCEPT ![s] = Append(@, Receiver_front(queue[s]))]
           /\ lock' = [lock EXCEPT ![s] = NoThread]
    /\ pc' = [pc EXCEPT ![c] = 0]
    /\ UNCHANGED <<kind, fn, held, strong, listeners, queue, stack, parent,
                   born, sentLog, delivered>>

\* mutant: a non-blocking pop, next() returns None on an empty buffer
Iter_next_nonblocking(c) ==
    /\ pc[c] # 0
    /\ LET s == pc[c]
       IN  /\ returned' = [returned EXCEPT ![s] =
                               IF Receiver_canPop(queue[s])
                               THEN Append(@, Receiver_front(queue[s])) ELSE @]
           /\ queue' = [queue EXCEPT ![s] =
                            IF Receiver_canPop(@) THEN Receiver_rest(@) ELSE @]
           /\ lock' = [lock EXCEPT ![s] = NoThread]
    /\ pc' = [pc EXCEPT ![c] = 0]
    /\ UNCHANGED <<kind, fn, held, strong, listeners, stack, parent, born,
                   sentLog, delivered>>

\* .next() on the locked Receiver: blocks until a value is buffered, returns it,
\* and the guard is released.
Iter_next(c) ==
    /\ pc[c] # 0
    /\ LET s == pc[c]
       IN  /\ Receiver_canPop(queue[s])
           /\ returned' = [returned EXCEPT ![s] = Append(@, Receiver_front(queue[s]))]
           /\ queue' = [queue EXCEPT ![s] = Receiver_rest(@)]
           /\ lock' = [lock EXCEPT ![s] = NoThread]
    /\ pc' = [pc EXCEPT ![c] = 0]
    /\ UNCHANGED <<kind, fn, held, strong, listeners, stack, parent, born,
                   sentLog, delivered>>

Next ==
    \/ \E u \in Stages, f \in Fns : Event_map(u, f)
    \/ \E u \in Stages, p \in Preds : Event_filter(u, p)
    \/ \E u \in Stages : Event_iter(u)
    \/ \E s \in Stages : Handle_drop(s)
    \/ \E t \in Producers, v \in Values : Sink_send(t, v)
    \/ \E t \in Producers : Listener_dead(t)
    \/ \E t \in Producers : Listener_accept(t)
    \/ \E t \in Producers : Source_return(t)
    \/ \E t \in Producers : Send_return(t)
    \/ \E c \in Consumers, s \in Stages : Iter_lock(c, s)
    \/ \E c \in Consumers : Iter_next(c)

Spec == Init /\ [][Next]_vars

\* One producer, one consumer, every handle kept: longer chains.
ChainNext ==
    \/ \E u \in Stages, f \in Fns : Event_map(u, f)
    \/ \E u \in Stages, p \in Preds : Event_filter(u, p)
    \/ \E u \in Stages : Event_iter(u)
    \/ \E v \in Values : Sink_send("p1", v)
    \/ Listener_accept("p1")
    \/ Source_return("p1")
    \/ Send_return("p1")
    \/ \E c \in Consumers, s \in Stages : Iter_lock(c, s)
    \/ \E c \in Consumers : Iter_next(c)

ChainSpec == ChainInit /\ [][ChainNext]_vars

\* A thread that can take its next step inside send or next eventually takes it;
\* nothing obliges the program to start a call.
Fairness ==
    /\ \A t \in Producers :
           WF_vars(Listener_dead(t) \/ Listener_accept(t) \/ Source_return(t)
                   \/ Send_return(t))
    /\ \A c \in Consumers : WF_vars(Iter_next(c))

FairSpec == Init /\ [][Next]_vars /\ Fairness


\* ---- properties ----

\* no send is in flight
Idle == \A t \in Producers : stack[t] = <<>>

SentVals == [i \in 1 .. Len(sentLog) |-> sentLog[i].v]

Vals(seq) == [i \in 1 .. Len(seq) |-> seq[i].v]

IsPrefix(a, b) == Len(a) <= Len(b) /\ a = SubSeq(b, 1, Len(a))

MapSeq(f, seq) == [i \in 1 .. Len(seq) |-> ApplyFn(f, seq[i])]

FilterSeq(p, seq) == SelectSeq(seq, LAMBDA x : ApplyPred(p, x))

Buffered(s) == returned[s] \o queue[s]

\* s is an iter registered on the Sink before the first send, its handle kept
FirstIter(s) == kind[s] = "iter" /\ held[s] /\ parent[s] = TheSink /\ born[s] = 0

\* C1: an iter registered on the Sink before the first send returns the sent values
\* v1..vn in the order sent, and when the sends have returned all of them are
\* returned or buffered.
C1_SinkIterInOrder ==
    \A s \in Stages : FirstIter(s) =>
        /\ IsPrefix(returned[s], SentVals)
        /\ Idle => Buffered(s) = SentVals

C1_Witness ==
    \E s \in Stages : FirstIter(s) /\ returned[s] = <<12, 9>> /\ Len(sentLog) = 2

\* s is the iter of a chain Sink -> k -> iter built before the first send, both
\* handles kept
Chain2(s, k) ==
    /\ kind[s] = "iter" /\ held[s] /\ born[s] = 0
    /\ parent[s] # 0
    /\ kind[parent[s]] = k /\ held[parent[s]] /\ parent[parent[s]] = TheSink

\* C2: in Sink -> map(f) -> iter with both handles held, next() returns f(v) for
\* the values v sent, in order.
C2_MapYieldsImage ==
    \A s \in Stages : Chain2(s, "map") =>
        /\ IsPrefix(returned[s], MapSeq(fn[parent[s]], SentVals))
        /\ Idle => Buffered(s) = MapSeq(fn[parent[s]], SentVals)

C2_Witness ==
    \E s \in Stages :
        /\ Chain2(s, "map")
        /\ fn[parent[s]] = "triple"
        /\ sentLog # <<>> /\ sentLog[1].v = 9
        /\ returned[s] = <<27>>

\* C3: in Sink -> filter(p) -> iter, a sent value is queued iff p holds of it; a
\* rejected value queues nothing and the next value returned is the next sent
\* value satisfying p.
C3_FilterQueuesIffPred ==
    \A s \in Stages : Chain2(s, "filter") =>
        /\ IsPrefix(returned[s], FilterSeq(fn[parent[s]], SentVals))
        /\ Idle => Buffered(s) = FilterSeq(fn[parent[s]], SentVals)

C3_Witness ==
    \E s \in Stages :
        /\ Chain2(s, "filter")
        /\ Len(sentLog) = 2 /\ sentLog[1].v = 12 /\ sentLog[2].v = 9
        /\ returned[s] = <<9>>
        /\ Idle

\* what the Source of stage u has broadcast, each value with the index of its send
Emitted(u) ==
    IF kind[u] = "sink" THEN [i \in 1 .. Len(sentLog) |-> [v |-> sentLog[i].v, k |-> i]]
    ELSE IF kind[u] = "map"
         THEN [i \in 1 .. Len(delivered[u]) |->
                   [v |-> ApplyFn(fn[u], delivered[u][i].v), k |-> delivered[u][i].k]]
    ELSE IF kind[u] = "filter"
         THEN SelectSeq(delivered[u], LAMBDA e : ApplyPred(fn[u], e.v))
    ELSE <<>>

After(seq, b) == SelectSeq(seq, LAMBDA e : e.k > b)

\* s has received every value its upstream broadcast since s was registered,
\* once each and unchanged
SeesAll(s) == After(delivered[s], born[s]) = After(Emitted(parent[s]), born[s])

Siblings(a, b) ==
    /\ a # b
    /\ parent[a] # 0 /\ parent[a] = parent[b]
    /\ held[a] /\ held[b]

\* C4: sibling stages on one upstream, all held, each observe every value the
\* upstream forwards exactly once; what one sibling consumes or computes does not
\* remove or change what the other sees.
C4_FanOutIndependence ==
    Idle => \A a, b \in Stages : Siblings(a, b) =>
                /\ SeesAll(a)
                /\ SeesAll(b)
                /\ kind[a] = "iter" => Buffered(a) = Vals(delivered[a])

C4_Witness ==
    \E a, b \in Stages :
        /\ Siblings(a, b) /\ Idle
        /\ kind[a] = "iter" /\ kind[b] = "iter"
        /\ born[a] = 0 /\ born[b] = 0
        /\ returned[a] = <<9, 12>> /\ queue[a] = <<>>
        /\ returned[b] = <<>> /\ queue[b] = <<9, 12>>

OnStack(s) == \E t \in Producers : \E i \in 1 .. Len(stack[t]) : stack[t][i].stage = s

Created(s) == kind[s] \in {"map", "filter", "iter"}

\* C5: once the handle of a stage is dropped the stage is never invoked again, and
\* the registration on its upstream does not keep it alive.
C5_DroppedStageInert ==
    [][\A s \in Stages : (Created(s) /\ ~held[s]) =>
            /\ delivered'[s] = delivered[s]
            /\ ~OnStack(s) => strong[s] = 0]_vars

\* a send made after the drop has met the dead handle and pruned it
C5_Witness ==
    \E s \in Stages :
        /\ Created(s) /\ ~held[s] /\ parent[s] = TheSink
        /\ delivered[s] # <<>>
        /\ Len(sentLog) > delivered[s][Len(delivered[s])].k
        /\ \A i \in 1 .. Len(listeners[TheSink]) : listeners[TheSink][i] # s


\* producer t, inside send, has reached the weak handle of stage s
Reaches(t, s) ==
    /\ stack[t] # <<>>
    /\ Top(t).i <= Len(listeners[Top(t).stage])
    /\ listeners[Top(t).stage][Top(t).i] = s

\* consumer c is inside next() on s and s has nothing buffered
Blocked(c, s) == pc[c] = s /\ queue[s] = <<>>

\* C6: a next() blocked on an empty queue returns once a send delivers a value to
\* its iter; the blocked next() does not keep the value from being queued.
C6_BlockedNextReturns ==
    \A c \in Consumers, s \in Stages :
        (Blocked(c, s) /\ \E t \in Producers : Reaches(t, s)) ~> (pc[c] = 0)


\* C7: what next() has returned on an iter followed by what the iter still buffers
\* is what was delivered to it, in delivery order.
C7_ReturnedThenQueuedIsDelivered ==
    \A s \in Stages : (kind[s] = "iter" /\ Alive(s)) =>
        Buffered(s) = Vals(delivered[s])

C7_Witness ==
    \E s \in Stages :
        /\ kind[s] = "iter" /\ Alive(s)
        /\ returned[s] = <<9>> /\ queue[s] = <<12, 9>>

\* the handles of s and of every stage between the Sink and s are held
RECURSIVE PathHeld(_)
PathHeld(s) ==
    /\ held[s]
    /\ parent[s] = TheSink \/ (parent[s] # 0 /\ PathHeld(parent[s]))

SinkEmitted == [i \in 1 .. Len(sentLog) |-> [v |-> sentLog[i].v, k |-> i]]

\* what the sends made so far bring to the input of s: every map on the path
\* applied elementwise, every filter as a selection
RECURSIVE Arriving(_)
Arriving(s) ==
    LET u == parent[s]
        in == Arriving(u)
    IN  IF u = TheSink THEN SinkEmitted
        ELSE IF kind[u] = "map"
             THEN [i \in 1 .. Len(in) |-> [v |-> ApplyFn(fn[u], in[i].v), k |-> in[i].k]]
        ELSE SelectSeq(in, LAMBDA e : ApplyPred(fn[u], e.v))

HasSend(seq, k) == \E i \in 1 .. Len(seq) : seq[i].k = k

Got(s, k) == \E i \in 1 .. Len(delivered[s]) : \E j \in 1 .. Len(Arriving(s)) :
                 delivered[s][i] = Arriving(s)[j] /\ delivered[s][i].k = k

\* C8 as stated: when send returns, its value has reached every stage that was
\* registered and alive downstream when the send started.
C8_DeliveredToAllLiveAtStart ==
    [][\A t \in Producers : (Len(stack[t]) = 1 /\ stack'[t] = <<>>) =>
           \A s \in stack[t][1].live :
               HasSend(Arriving(s), stack[t][1].k) => Got(s, stack[t][1].k)]_vars

\* C8 amended: when send returns, its value has reached every stage that was
\* registered and alive downstream when the send started and whose handle, with
\* those of the stages above it, is still held; and a value is only ever delivered
\* on behalf of a send that has not returned yet.
C8_SendIsSynchronous ==
    [][/\ \A t \in Producers : (Len(stack[t]) = 1 /\ stack'[t] = <<>>) =>
              \A s \in stack[t][1].live :
                  (PathHeld(s) /\ HasSend(Arriving(s), stack[t][1].k))
                      => Got(s, stack[t][1].k)
       /\ \A s \in Stages : delivered'[s] # delivered[s] =>
              \E t \in Producers :
                  /\ stack[t] # <<>>
                  /\ stack[t][1].k = Len(sentLog)
                  /\ Len(delivered'[s]) = Len(delivered[s]) + 1
                  /\ delivered'[s][Len(delivered'[s])].k = stack[t][1].k]_vars

C8_Witness ==
    \E s \in Stages :
        /\ Idle /\ Len(sentLog) = 1
        /\ born[s] = 0
        /\ kind[s] = "iter" /\ parent[s] # TheSink /\ PathHeld(s)
        /\ Got(s, 1)

\* C9: along a chain of maps and filters ending in an iter, all handles held, next()
\* returns the sent sequence with every map applied elementwise and every filter
\* as a selection, in the order sent.
C9_ChainKeepsOrder ==
    \A s \in Stages : (kind[s] = "iter" /\ PathHeld(s) /\ born[s] = 0) =>
        /\ IsPrefix(returned[s], Vals(Arriving(s)))
        /\ IsPrefix(Buffered(s), Vals(Arriving(s)))
        /\ Idle => Buffered(s) = Vals(Arriving(s))

\* Sink -> map(x + 1) -> filter(x < 11) -> iter, after send(9), send(12), send(9)
C9_Witness ==
    \E s \in Stages :
        /\ kind[s] = "iter" /\ PathHeld(s) /\ born[s] = 0
        /\ parent[s] # TheSink /\ kind[parent[s]] = "filter"
        /\ parent[parent[s]] # TheSink /\ kind[parent[parent[s]]] = "map"
        /\ fn[parent[parent[s]]] = "succ"
        /\ SentVals = <<9, 12, 9>>
        /\ returned[s] = <<10, 10>>

FromThread(seq, t) == SelectSeq(seq, LAMBDA e : sentLog[e.k].t = t)

\* C10: with several producers sending on one Sink, an iter downstream (handles on
\* its path held) receives each producer's values in the order that producer sent
\* them, none missing.
C10_PerProducerOrder ==
    \A s \in Stages : (kind[s] = "iter" /\ PathHeld(s)) =>
        \A t \in Producers :
            LET exp == FromThread(After(Arriving(s), born[s]), t)
                got == FromThread(After(delivered[s], born[s]), t)
            IN  /\ IsPrefix(got, exp)
                /\ Idle => got = exp
                /\ IsPrefix(returned[s], Vals(delivered[s]))

C10_Witness ==
    \E s \in Stages :
        /\ kind[s] = "iter" /\ PathHeld(s) /\ born[s] = 0
        /\ Len(sentLog) = 3
        /\ sentLog[1].t = "p1" /\ sentLog[2].t = "p2" /\ sentLog[3].t = "p1"
        /\ sentLog[1].v # sentLog[3].v
        /\ Len(returned[s]) = 3


Position(seq, k) == CHOOSE i \in 1 .. Len(seq) : seq[i].k = k

\* a and b are live listeners of one stage
SameUpstream(a, b) ==
    /\ a # b
    /\ parent[a] # 0 /\ parent[a] = parent[b]
    /\ Alive(a) /\ Alive(b)

\* C11: with several producers, the listeners of one stage are delivered the values
\* in the same relative order, and a value is fanned out to all of them before any
\* of them is delivered the next one.
C11_SameOrderForAllListeners ==
    \A a, b \in Stages : SameUpstream(a, b) =>
        /\ \A j, k \in 1 .. Len(sentLog) :
               (/\ HasSend(delivered[a], j) /\ HasSend(delivered[a], k)
                /\ HasSend(delivered[b], j) /\ HasSend(delivered[b], k))
               => (Position(delivered[a], j) < Position(delivered[a], k)
                   <=> Position(delivered[b], j) < Position(delivered[b], k))
        /\ \A j, k \in 1 .. Len(sentLog) :
               (/\ j < k /\ j > born[b]
                /\ held[a] /\ held[b]
                /\ HasSend(Emitted(parent[b]), j)
                /\ HasSend(delivered[a], k))
               => HasSend(delivered[b], j)
        /\ kind[a] = "iter" => IsPrefix(returned[a], Vals(delivered[a]))

C11_Witness ==
    \E a, b \in Stages :
        /\ SameUpstream(a, b) /\ parent[a] = TheSink
        /\ kind[a] = "iter" /\ kind[b] = "iter"
        /\ Len(sentLog) = 2 /\ sentLog[1].t = "p1" /\ sentLog[2].t = "p2"
        /\ returned[a] = <<9, 12>> /\ returned[b] = <<9, 12>>


\* s is the iter of a chain Sink -> map/filter -> iter built before the first send;
\* the Sink and the iter are held, the handle of the middle stage may be gone
TailHeld(s) ==
    /\ kind[s] = "iter" /\ held[s] /\ born[s] = 0
    /\ parent[s] # 0 /\ kind[parent[s]] \in {"map", "filter"}
    /\ parent[parent[s]] = TheSink

\* C12: in Sink -> map(f) -> iter or Sink -> filter(p) -> iter, while the Sink and
\* the iter are held every value sent reaches the iter, also after the handle of
\* the map / filter stage has been released.
C12_TailKeepsChainAlive ==
    \A s \in Stages : (TailHeld(s) /\ Idle) => Buffered(s) = Vals(Arriving(s))


\* the stage a map / filter / iter call creates in this step
Grown == FreeStages \ FreeStages'

Without(seq, s) == SelectSeq(seq, LAMBDA x : x # s)

\* C13: map, filter or iter on a stage adds exactly one listener to that stage and
\* leaves the listeners already registered, on it and everywhere else, what they
\* have received and every buffer as they were.
C13_GrowthOnlyAddsOneListener ==
    [][\A n \in Grown :
           /\ \E u \in Stages :
                  /\ u # n /\ IsEvent(u)
                  /\ Len(listeners'[u]) = Len(listeners[u]) + 1
                  /\ Without(listeners'[u], n) = listeners[u]
                  /\ \A w \in Stages \ {u} : listeners'[w] = listeners[w]
           /\ queue' = queue
           /\ delivered' = delivered
           /\ returned' = returned
           /\ \A w \in Stages \ {n} : kind'[w] = kind[w] /\ fn'[w] = fn[w]
                                       /\ strong'[w] = strong[w]]_vars

\* map / filter / iter called twice on the Sink; the first listener, kept, has
\* received what was sent before and after the second call
C13_Witness ==
    \E a, b \in Stages :
        /\ a < b /\ parent[a] = TheSink /\ parent[b] = TheSink
        /\ listeners[TheSink] = <<a, b>>
        /\ born[a] = 0 /\ born[b] = 1
        /\ Len(delivered[a]) = 2 /\ Len(delivered[b]) = 1


\* C14: a next() call that returns returns Some(v) for a delivered value v, the
\* oldest one buffered; it never returns on an empty buffer, however many values
\* were consumed before.
C14_NextReturnsSome ==
    [][\A c \in Consumers : (pc[c] # 0 /\ pc'[c] = 0) =>
           /\ queue[pc[c]] # <<>>
           /\ returned'[pc[c]] = Append(returned[pc[c]], Head(queue[pc[c]]))
           /\ \E i \in 1 .. Len(delivered[pc[c]]) :
                  delivered[pc[c]][i].v = Head(queue[pc[c]])]_vars

\* every value sent has been consumed, the buffer is empty again
C14_Witness ==
    \E s \in Stages :
        /\ kind[s] = "iter" /\ PathHeld(s)
        /\ Len(sentLog) = 3 /\ Len(returned[s]) = 3 /\ queue[s] = <<>>
        /\ \A c \in Consumers : pc[c] = 0


InSend(t) == stack[t] # <<>>

\* C15 as stated: a send in progress does not exclude another send on the Sink;
\* a second thread can enter the fan-out while the first is inside it.
C15_SendDoesNotExcludeSend ==
    \A t1, t2 \in Producers :
        (t1 # t2 /\ InSend(t1) /\ ~InSend(t2) /\ Len(sentLog) < MaxSends)
            => ENABLED (\E v \in Values : Sink_send(t2, v))

\* C15 amended: send takes the Sink's lock exclusively, as map / filter / iter do:
\* at most one thread is inside the fan-out of send on the Sink, it holds the
\* Sink's lock until send returns, and meanwhile no other send can start.
C15_SendsAreExclusive ==
    \A t1 \in Producers : InSend(t1) =>
        /\ lock[TheSink] = t1
        /\ \A t2 \in Producers \ {t1} :
               /\ ~InSend(t2)
               /\ ~ENABLED (\E v \in Values : Sink_send(t2, v))
        /\ \A u \in Stages : OnStack(u) => ~ENABLED (Event_iter(u))

\* p2 has sent before and could send again, but p1 is inside send
C15_Witness ==
    /\ InSend("p1") /\ ~InSend("p2")
    /\ Len(sentLog) = 2 /\ sentLog[1].t = "p2"
    /\ Top("p1").i <= Len(listeners[Top("p1").stage])


Count(seq, k) == Cardinality({i \in 1 .. Len(seq) : seq[i].k = k})

\* every held stage has received each value its upstream broadcast at most once,
\* and, once the sends have returned, all those broadcast since it was registered
ReceivesSinceRegistered ==
    \A s \in Stages : (Created(s) /\ held[s]) =>
        /\ \A k \in 1 .. Len(sentLog) :
               Count(delivered[s], k) <= Count(Emitted(parent[s]), k)
        /\ \A k \in 1 .. Len(sentLog) : Count(delivered[s], k) <= 1
        /\ Idle => SeesAll(s)

\* C16: map / filter / iter on a stage excludes a fan-out in progress over that
\* stage; a listener registered while a send is in flight receives its value whole
\* or not at all, and receives every value the stage forwards afterwards.
C16_GrowthExcludesFanOut ==
    [][/\ \A n \in Grown : ~OnStack(parent'[n]) /\ LockFree(parent'[n])
       /\ ReceivesSinceRegistered']_vars

\* an iter registered on a map while a send was in flight upstream, which then
\* received that send's value
C16_Witness ==
    \E s \in Stages, t \in Producers :
        /\ InSend(t)
        /\ Created(s) /\ held[s] /\ parent[s] # TheSink
        /\ born[s] = Len(sentLog)
        /\ HasSend(delivered[s], Len(sentLog))


\* C17: a producer inside send and a consumer inside next() never wait on each
\* other: whenever the delivery of send needs the lock that a next() call holds,
\* that next() call can return.
C17_NoProducerConsumerDeadlock ==
    \A t \in Producers, c \in Consumers, s \in Stages :
        (Reaches(t, s) /\ pc[c] = s) => ENABLED Iter_next(c)


\* b was registered on the same upstream as a and its handle has been dropped
DeadSibling(a, b) ==
    /\ a # b
    /\ parent[a] # 0 /\ parent[a] = parent[b]
    /\ held[a]
    /\ Created(b) /\ ~held[b]

\* C18: a send that meets the handle of a destroyed listener does not fail: the
\* send can go on past it, and once it has returned every held sibling of the
\* destroyed listener has received each forwarded value once and in order.
C18_DeadListenerIsSkipped ==
    /\ \A t \in Producers, l \in Stages :
           (Reaches(t, l) /\ ~Alive(l)) => ENABLED Listener_dead(t)
    /\ Idle => \A a, b \in Stages : DeadSibling(a, b) =>
                   /\ SeesAll(a)
                   /\ kind[a] = "iter" => Buffered(a) = Vals(delivered[a])

\* b was dropped after the first send; the second send met its handle, pruned it
\* and still reached a, which is registered behind b
C18_Witness ==
    \E a, b \in Stages :
        /\ DeadSibling(a, b) /\ Idle
        /\ parent[a] = TheSink /\ kind[a] = "iter"
        /\ b < a /\ born[a] = 0 /\ born[b] = 0
        /\ Len(sentLog) = 2
        /\ Len(delivered[b]) = 1
        /\ listeners[TheSink] = <<a>>
        /\ Buffered(a) = <<sentLog[1].v, sentLog[2].v>>


\* the index of the send thread t is inside
SendOf(t) == stack[t][1].k

\* every value s has observed was sent no earlier than the send that was the last
\* one when s was registered, and later than it when s listens to the Sink itself
\* (registration on the Sink excludes a send in flight)
OnlySince(s) ==
    /\ \A i \in 1 .. Len(delivered[s]) :
           /\ delivered[s][i].k >= born[s]
           /\ parent[s] = TheSink => delivered[s][i].k > born[s]
    /\ (kind[s] = "iter" /\ parent[s] = TheSink /\ returned[s] # <<>>) =>
           returned[s][1] = sentLog[born[s] + 1].v

\* C19: no replay. A stage starts with nothing observed and nothing buffered; a
\* value reaches a stage only while the send that carries it is still in flight,
\* so a send that completed before the registration is never observed; an iter
\* created on the Sink between two sends yields the second value first.
C19_NoReplay ==
    [][\A s \in Stages :
           /\ s \in Grown => delivered'[s] = <<>> /\ queue'[s] = <<>>
           /\ delivered'[s] # delivered[s] =>
                  \E t \in Producers :
                      /\ InSend(t)
                      /\ Len(delivered'[s]) = Len(delivered[s]) + 1
                      /\ SubSeq(delivered'[s], 1, Len(delivered[s])) = delivered[s]
                      /\ delivered'[s][Len(delivered'[s])].k = SendOf(t)
           /\ Created(s) => OnlySince(s)']_vars

\* an iter created after send(9) returned and before send(12) yields 12 first
C19_Witness ==
    \E s \in Stages :
        /\ kind[s] = "iter" /\ parent[s] = TheSink /\ held[s]
        /\ born[s] = 1
        /\ Len(sentLog) >= 2 /\ sentLog[1].v = 9 /\ sentLog[2].v = 12
        /\ returned[s] # <<>> /\ returned[s][1] = 12

====
